---- MODULE Spec2Model ----
(***************************************************************************)
(* Model of the web proxy of src/server.js: the host policy               *)
(* (matchesList, isAllowed), the URL codec (absoluteUrl, toProxyUrl), the  *)
(* /proxy request handler and the WebSocket upgrade handler.               *)
(*                                                                         *)
(* Text (hostnames, rules, URLs) is a sequence of one-character strings,   *)
(* so that endsWith, startsWith, slice, percent-encoding and URL parsing   *)
(* are computed character by character as the code computes them.          *)
(***************************************************************************)
EXTENDS Integers, Sequences, FiniteSets, TLC

(***************************************************************************)
(* Bounds of the model.                                                    *)
(***************************************************************************)
MaxHostLen == 3
MaxRuleLen == 3
MaxChunks == 2

(***************************************************************************)
(* Text helpers (JavaScript String methods).                               *)
(***************************************************************************)
startsWith(s, p) ==
  /\ Len(p) <= Len(s)
  /\ SubSeq(s, 1, Len(p)) = p

endsWith(s, p) ==
  /\ Len(p) <= Len(s)
  /\ SubSeq(s, Len(s) - Len(p) + 1, Len(s)) = p

\* s.slice(n): the text from (0-based) index n on
slice(s, n) == SubSeq(s, n + 1, Len(s))

\* all texts over alphabet A of length 0..n
RECURSIVE Texts(_, _)
Texts(A, n) ==
  IF n = 0 THEN {<<>>}
  ELSE LET shorter == Texts(A, n - 1)
       IN shorter \cup {Append(s, c) : s \in shorter, c \in A}

(***************************************************************************)
(* Characters.                                                             *)
(***************************************************************************)
LowerAlpha ==
  <<"a","b","c","d","e","f","g","h","i","j","k","l","m",
    "n","o","p","q","r","s","t","u","v","w","x","y","z">>

UpperAlpha ==
  <<"A","B","C","D","E","F","G","H","I","J","K","L","M",
    "N","O","P","Q","R","S","T","U","V","W","X","Y","Z">>

Digits == {"0","1","2","3","4","5","6","7","8","9"}

Range(f) == {f[i] : i \in DOMAIN f}

isAlpha(c) == c \in Range(LowerAlpha) \cup Range(UpperAlpha)

toLowerChar(c) ==
  IF c \in Range(UpperAlpha)
  THEN LowerAlpha[CHOOSE i \in 1..26 : UpperAlpha[i] = c]
  ELSE c

\* String.prototype.toLowerCase
toLowerCase(s) == [i \in 1..Len(s) |-> toLowerChar(s[i])]

\* index of the first character of s that is in C, Len(s)+1 when there is none
FirstIn(s, C) ==
  IF \E i \in 1..Len(s) : s[i] \in C
  THEN CHOOSE i \in 1..Len(s) :
         /\ s[i] \in C
         /\ \A j \in 1..(i - 1) : s[j] \notin C
  ELSE Len(s) + 1

\* index of the last character of s that is in C, 0 when there is none
LastIn(s, C) ==
  IF \E i \in 1..Len(s) : s[i] \in C
  THEN CHOOSE i \in 1..Len(s) :
         /\ s[i] \in C
         /\ \A j \in (i + 1)..Len(s) : s[j] \notin C
  ELSE 0

(***************************************************************************)
(* Percent-encoding. PctCode gives the two hex digits of every printable   *)
(* ASCII character that encodeURIComponent or the URL parser escapes (the  *)
(* double quote, the backquote and the backslash, which no text of the     *)
(* model contains, are left out).                                          *)
(***************************************************************************)
PctTable ==
  << <<" ", "2", "0">>, <<"#", "2", "3">>,
     <<"$", "2", "4">>, <<"%", "2", "5">>, <<"&", "2", "6">>,
     <<"+", "2", "B">>, <<",", "2", "C">>, <<"/", "2", "F">>,
     <<":", "3", "A">>, <<";", "3", "B">>, <<"<", "3", "C">>,
     <<"=", "3", "D">>, <<">", "3", "E">>, <<"?", "3", "F">>,
     <<"@", "4", "0">>, <<"[", "5", "B">>,
     <<"]", "5", "D">>, <<"^", "5", "E">>,
     <<"{", "7", "B">>, <<"|", "7", "C">>, <<"}", "7", "D">>,
     <<"'", "2", "7">> >>

PctCode(c) ==
  LET e == PctTable[CHOOSE i \in DOMAIN PctTable : PctTable[i][1] = c]
  IN <<"%", e[2], e[3]>>

HasPctCode(c) == \E i \in DOMAIN PctTable : PctTable[i][1] = c

\* the character a %XY escape stands for
PctChar(x, y) ==
  PctTable[CHOOSE i \in DOMAIN PctTable :
             PctTable[i][2] = x /\ PctTable[i][3] = y][1]

IsPctCode(x, y) ==
  \E i \in DOMAIN PctTable : PctTable[i][2] = x /\ PctTable[i][3] = y

\* percent-encode the characters of s that are in the encode set C
RECURSIVE pctEncode(_, _)
pctEncode(s, C) ==
  IF s = <<>> THEN <<>>
  ELSE (IF Head(s) \in C THEN PctCode(Head(s)) ELSE <<Head(s)>>)
         \o pctEncode(Tail(s), C)

\* encodeURIComponent escapes everything but A-Z a-z 0-9 - _ . ! ~ * ' ( )
UriUnreserved ==
  Range(LowerAlpha) \cup Range(UpperAlpha) \cup Digits
    \cup {"-", "_", ".", "!", "~", "*", "'", "(", ")"}

\* Mutant of encodeURIComponent: escapes as encodeURI does, leaving the
\* reserved characters ; / ? : @ & = + $ , # as they are
RECURSIVE encodeURI(_)
encodeURI(s) ==
  IF s = <<>> THEN <<>>
  ELSE (IF Head(s) \in UriUnreserved
                      \cup {";", "/", "?", ":", "@", "&", "=", "+", "$",
                            ",", "#"}
        THEN <<Head(s)>> ELSE PctCode(Head(s)))
         \o encodeURI(Tail(s))

RECURSIVE encodeURIComponent(_)
encodeURIComponent(s) ==
  IF s = <<>> THEN <<>>
  ELSE (IF Head(s) \in UriUnreserved THEN <<Head(s)>> ELSE PctCode(Head(s)))
         \o encodeURIComponent(Tail(s))

\* decodeURIComponent on the escapes of PctTable; any other % stays as text
RECURSIVE decodeURIComponent(_)
decodeURIComponent(s) ==
  IF s = <<>> THEN <<>>
  ELSE IF Head(s) = "%" /\ Len(s) >= 3 /\ IsPctCode(s[2], s[3])
       THEN <<PctChar(s[2], s[3])>> \o decodeURIComponent(slice(s, 3))
       ELSE <<Head(s)>> \o decodeURIComponent(Tail(s))

\* the query-string decoder of the express query parser: '+' is a space,
\* then percent-decoding
qsDecode(s) ==
  decodeURIComponent([i \in 1..Len(s) |-> IF s[i] = "+" THEN " " ELSE s[i]])

(***************************************************************************)
(* The URL class (WHATWG URL parsing and serialising), for the URLs the    *)
(* model feeds it: no userinfo, no port, no fragment, no backslash or      *)
(* double quote, no dot segments, no numeric or bracketed hosts.           *)
(***************************************************************************)
http == <<"h","t","t","p">>
https == <<"h","t","t","p","s">>
ftp == <<"f","t","p">>

SpecialSchemes == {http, https, ftp, <<"w","s">>, <<"w","s","s">>}

SchemeChars ==
  Range(LowerAlpha) \cup Range(UpperAlpha) \cup Digits \cup {"+", "-", "."}

ForbiddenHostChars ==
  {" ", "#", "/", ":", "<", ">", "?", "@", "[", "]", "^", "|", "%"}

PathEncodeSet == {" ", "#", "<", ">", "?", "{", "}"}
QueryEncodeSet == {" ", "#", "<", ">"}
SpecialQueryEncodeSet == QueryEncodeSet \cup {"'"}

\* the value of a URL that failed to parse (new URL throws)
Failure ==
  [ok |-> FALSE, scheme |-> <<>>, special |-> FALSE, hostname |-> <<>>,
   pathname |-> <<>>, hasQuery |-> FALSE, query |-> <<>>]

NoBase == Failure

\* leading and trailing spaces are stripped before parsing
RECURSIVE trim(_)
trim(s) ==
  IF s = <<>> THEN s
  ELSE IF Head(s) = " " THEN trim(Tail(s))
  ELSE IF s[Len(s)] = " " THEN trim(SubSeq(s, 1, Len(s) - 1))
  ELSE s

\* skip every leading slash (special authority ignore slashes state)
RECURSIVE skipSlashes(_)
skipSlashes(s) ==
  IF s # <<>> /\ Head(s) = "/" THEN skipSlashes(Tail(s)) ELSE s

\* path state and query state, on the text that follows the authority
parsePathQuery(scheme, special, hostname, rest) ==
  LET q == FirstIn(rest, {"?"})
      pathText == SubSeq(rest, 1, q - 1)
      queryText == SubSeq(rest, q + 1, Len(rest))
  IN [ok |-> TRUE, scheme |-> scheme, special |-> special,
      hostname |-> hostname,
      pathname |-> IF special /\ pathText = <<>> THEN <<"/">>
                   ELSE pctEncode(pathText, PathEncodeSet),
      hasQuery |-> q <= Len(rest),
      query |-> pctEncode(queryText,
                          IF special THEN SpecialQueryEncodeSet
                          ELSE QueryEncodeSet)]

\* authority state and host parsing, on the text that follows the slashes
parseAuthority(scheme, special, r) ==
  LET e == FirstIn(r, {"/", "?"})
      hostText == SubSeq(r, 1, e - 1)
      rest == SubSeq(r, e, Len(r))
  IN IF special /\ hostText = <<>> THEN Failure
     ELSE IF \E i \in 1..Len(hostText) : hostText[i] \in ForbiddenHostChars
          THEN Failure
     ELSE parsePathQuery(scheme, special,
                         IF special THEN toLowerCase(hostText) ELSE hostText,
                         rest)

\* relative state: the reference r has no scheme of its own, base is special
parseRelative(base, r) ==
  IF r = <<>> THEN base
  ELSE IF startsWith(r, <<"/", "/">>)
       THEN parseAuthority(base.scheme, base.special, skipSlashes(r))
  ELSE IF Head(r) = "/"
       THEN parsePathQuery(base.scheme, base.special, base.hostname, r)
  ELSE IF Head(r) = "?"
       THEN parsePathQuery(base.scheme, base.special, base.hostname,
                           base.pathname \o r)
  ELSE parsePathQuery(base.scheme, base.special, base.hostname,
                      SubSeq(base.pathname, 1, LastIn(base.pathname, {"/"}))
                        \o r)

\* new URL(input, base); base = NoBase for new URL(input)
parseURL(input, base) ==
  LET s == trim(input)
      k == FirstIn(s, {c \in Range(s) : c \notin SchemeChars})
      hasScheme == s # <<>> /\ isAlpha(s[1]) /\ k <= Len(s) /\ s[k] = ":"
      scheme == toLowerCase(SubSeq(s, 1, k - 1))
      r == SubSeq(s, k + 1, Len(s))
  IN IF ~hasScheme
     THEN IF base.ok /\ base.special THEN parseRelative(base, s) ELSE Failure
     ELSE IF scheme \in SpecialSchemes
          THEN IF base.ok /\ base.scheme = scheme
                  /\ ~startsWith(r, <<"/", "/">>)
               THEN parseRelative(base, r)
               ELSE parseAuthority(scheme, TRUE, skipSlashes(r))
     ELSE IF startsWith(r, <<"/", "/">>)
          THEN parseAuthority(scheme, FALSE, slice(r, 2))
     ELSE LET q == FirstIn(r, {"?"})
          IN [ok |-> TRUE, scheme |-> scheme, special |-> FALSE,
              hostname |-> <<>>,
              pathname |-> SubSeq(r, 1, q - 1),
              hasQuery |-> q <= Len(r),
              query |-> pctEncode(SubSeq(r, q + 1, Len(r)), QueryEncodeSet)]

\* url.protocol
protocol(u) == u.scheme \o <<":">>

\* url.toString()
toString(u) ==
  protocol(u)
    \o (IF u.special \/ u.hostname # <<>>
        THEN <<"/", "/">> \o u.hostname ELSE <<>>)
    \o u.pathname
    \o (IF u.hasQuery THEN <<"?">> \o u.query ELSE <<>>)

\* url.origin
origin(u) ==
  IF u.special THEN protocol(u) \o <<"/", "/">> \o u.hostname
  ELSE <<"n","u","l","l">>

(***************************************************************************)
(* State.                                                                  *)
(***************************************************************************)
VARIABLES
  ALLOWLIST,   \* allow-rules, read from the environment at startup
  BLOCKLIST,   \* block-rules, read from the environment at startup
  ENABLE_REWRITE, \* HTML rewrite on/off, read from the environment
  call,        \* a direct call of a helper: its name and arguments
  ret,         \* the outcome of that call
  conn,        \* what the connection at hand carries: "none", "proxy", "ws"
  pc,          \* where the /proxy handler of the request at hand stands
  req,         \* the inbound request: method and req.query.url
  inbound,     \* the chunks of the request body the handler was given so far
  targetUrl,   \* local targetUrl of the handler
  chunks,      \* local chunks of the handler
  size,        \* local size of the handler
  policyEvaluated, \* the URLs isAllowed was evaluated on for this connection
  fetches,     \* the calls of fetch made for this request, in order
  upstream,    \* the outcome of the fetch
  res,         \* the response: status, headers, number of times ended, body
  ws,          \* the upgrade request at hand and what became of its socket
  chosen,      \* the path chosen for the upstream body: "stream", "rewrite"
  reads,       \* the reads of the upstream body so far: who read which chunk
  clientGone,  \* TRUE once the client of the request at hand disconnected
  app,         \* app.js: the request to /p/<host> at hand and its outcome
  links        \* app.js: the hosts of the /p/ links rewriting has produced

vars ==
  <<ALLOWLIST, BLOCKLIST, ENABLE_REWRITE, call, ret, conn, pc, req, inbound,
    targetUrl, chunks, size, policyEvaluated, fetches, upstream, res, ws,
    chosen, reads, clientGone, app, links>>

\* JavaScript null and undefined: no text equals them, a text being a
\* sequence of one-character strings
Null == <<"null">>
Undefined == <<"undefined">>

\* JavaScript truthiness of a string-or-null/undefined value
truthy(v) == v # Null /\ v # Undefined /\ v # <<>>

(***************************************************************************)
(* Helpers of src/server.js.                                               *)
(***************************************************************************)
\* Mutant of matchesList: the wildcard suffix is taken without its dot
matchesListNoDot(host, list) ==
  IF ~truthy(host) THEN FALSE
  ELSE \E i \in 1..Len(list) :
         LET rule == list[i]
         IN IF startsWith(rule, <<"*", ".">>)
            THEN endsWith(host, slice(rule, 2))
            ELSE host = rule

matchesList(host, list) ==
  IF ~truthy(host) THEN FALSE
  ELSE \E i \in 1..Len(list) :
         LET rule == list[i]
         IN IF startsWith(rule, <<"*", ".">>)
            THEN endsWith(host, slice(rule, 1))
            ELSE host = rule

\* Mutant of isAllowed: the allow-rules are consulted before the block-rules
isAllowedAllowFirst(urlObj) ==
  LET host == urlObj.hostname
  IN IF Len(ALLOWLIST) # 0 /\ matchesList(host, ALLOWLIST) THEN TRUE
     ELSE IF Len(BLOCKLIST) # 0 /\ matchesList(host, BLOCKLIST) THEN FALSE
     ELSE IF Len(ALLOWLIST) # 0 THEN FALSE
     ELSE TRUE

isAllowed(urlObj) ==
  LET host == urlObj.hostname
  IN IF Len(BLOCKLIST) # 0 /\ matchesList(host, BLOCKLIST) THEN FALSE
     ELSE IF Len(ALLOWLIST) # 0 /\ ~matchesList(host, ALLOWLIST) THEN FALSE
     ELSE TRUE

\* base is a parsed URL, href a text; null when new URL(href, base) throws
absoluteUrl(base, href) ==
  LET u == parseURL(href, base)
  IN IF u.ok THEN toString(u) ELSE Null

ProxyPrefix == <<"/","p","r","o","x","y","?","u","r","l","=">>

\* defined when new URL(target) does not throw
toProxyUrl(target) ==
  LET u == parseURL(target, NoBase)
  IN ProxyPrefix \o encodeURIComponent(toString(u))

toProxyUrlThrows(target) == ~parseURL(target, NoBase).ok

(***************************************************************************)
(* req.query of express: the query string is split at each '&', each part  *)
(* at its first '=', and key and value are decoded.                        *)
(***************************************************************************)
RECURSIVE splitAmp(_)
splitAmp(s) ==
  LET a == FirstIn(s, {"&"})
  IN IF a > Len(s) THEN <<s>>
     ELSE <<SubSeq(s, 1, a - 1)>> \o splitAmp(slice(s, a))

queryString(reqUrl) == slice(reqUrl, FirstIn(reqUrl, {"?"}))

partKey(part) == qsDecode(SubSeq(part, 1, FirstIn(part, {"="}) - 1))
partValue(part) == qsDecode(slice(part, FirstIn(part, {"="})))

\* req.query[name], undefined when the parameter is absent
queryParam(reqUrl, name) ==
  LET parts == splitAmp(queryString(reqUrl))
      hits == {i \in 1..Len(parts) : partKey(parts[i]) = name}
  IN IF hits = {} THEN Undefined
     ELSE partValue(parts[CHOOSE i \in hits : \A j \in hits : i <= j])

urlParam == <<"u","r","l">>

(***************************************************************************)
(* Configuration of src/server.js.                                         *)
(***************************************************************************)
MAX_BODY_MB == 64

BodyLimit == MAX_BODY_MB * 1024 * 1024

(***************************************************************************)
(* Header names. A name is its lower-case text and the set of positions    *)
(* written in upper case, so that toLowerCase is a real conversion.        *)
(***************************************************************************)
Name(text) == [text |-> text, caps |-> {}]
Cased(text, caps) == [text |-> text, caps |-> caps]

nameToLowerCase(k) == [k EXCEPT !.caps = {}]

\* Mutant of hopByHop: the set lacks te
hopByHopNoTe ==
  {Name("connection"), Name("keep-alive"), Name("proxy-authenticate"),
   Name("proxy-authorization"), Name("trailers"),
   Name("transfer-encoding"), Name("upgrade")}

hopByHop ==
  {Name("connection"), Name("keep-alive"), Name("proxy-authenticate"),
   Name("proxy-authorization"), Name("te"), Name("trailers"),
   Name("transfer-encoding"), Name("upgrade")}

framingHeaders ==
  {Name("x-frame-options"), Name("content-security-policy"),
   Name("content-security-policy-report-only")}

\* the Headers object of a fetch response: names are lower-cased
Headers(wire) ==
  [k \in {nameToLowerCase(w) : w \in DOMAIN wire} |->
     wire[CHOOSE w \in DOMAIN wire : nameToLowerCase(w) = k]]

\* headers.get(name): null when the header is absent
headersGet(h, name) ==
  IF nameToLowerCase(name) \in DOMAIN h THEN h[nameToLowerCase(name)]
  ELSE Null

\* res.setHeader(k, v): one entry per name whatever its letter case
setHeader(h, k, v) ==
  [x \in DOMAIN h \cup {nameToLowerCase(k)} |->
     IF x = nameToLowerCase(k) THEN [name |-> k, value |-> v] ELSE h[x]]

(***************************************************************************)
(* The response object.                                                    *)
(***************************************************************************)
FreshRes == [statusCode |-> 200, headers |-> <<>>, ended |-> 0,
             body |-> "none", written |-> <<>>, lateHeaders |-> 0,
             afterGone |-> 0]

\* res.status(code).send(text)
statusSend(r, code, text) ==
  [r EXCEPT !.statusCode = code, !.ended = @ + 1, !.body = text,
            !.written = <<text>>]

\* res.setHeader(k, v): refused once a body byte is out or the response is
\* ended; the refusals are counted
resSetHeader(r, k, v) ==
  IF r.written # <<>> \/ r.ended > 0
  THEN [r EXCEPT !.lateHeaders = @ + 1]
  ELSE [r EXCEPT !.headers = setHeader(@, k, v)]

NoUpstream == [state |-> "none", status |-> 0, headers |-> <<>>,
               body |-> <<>>]

WsNone == [path |-> <<>>, hasParam |-> FALSE, target |-> <<>>,
           reqUrl |-> <<>>, socket |-> "none", tunnelTarget |-> <<>>,
           statusWritten |-> FALSE]

NoCall == [fn |-> "none"]
AppIdle == [state |-> "idle", path |-> <<>>, viaLink |-> FALSE,
            host |-> <<>>, status |-> 0, created |-> <<>>,
            invoked |-> FALSE, served |-> 0]
NoRet == [state |-> "none", val |-> <<>>]

(***************************************************************************)
(* app.all('/proxy'): validation of the target, lines 66-82.               *)
(***************************************************************************)
\* Mutant of supportedProtocol: the scheme check is left out
supportedProtocolAny(u) == TRUE

supportedProtocol(u) ==
  protocol(u) \in {http \o <<":">>, https \o <<":">>}

\* the fetch call of line 113
fetchCall(u, method, body) ==
  [url |-> toString(u), method |-> method, body |-> body,
   redirect |-> "manual"]

\* the handler up to its first await: the outcome of the checks and, for
\* GET and HEAD, the fetch call
proxyEntry(method, target) ==
  LET u == parseURL(target, NoBase)
      rejected(code, text, evaluated) ==
        [pc |-> "done", res |-> statusSend(FreshRes, code, text),
         targetUrl |-> Failure, policyEvaluated |-> evaluated,
         fetches |-> <<>>]
  IN IF ~truthy(target) THEN rejected(400, "Missing ?url=", {})
     ELSE IF ~u.ok THEN rejected(400, "Invalid URL", {})
     ELSE IF ~supportedProtocol(u)
          THEN rejected(400, "Only http/https are supported", {})
     ELSE IF ~isAllowed(u)
          THEN rejected(403, "Blocked by policy", {toString(u)})
     ELSE [pc |-> IF method # "GET" /\ method # "HEAD"
                  THEN "readBody" ELSE "fetching",
           res |-> FreshRes,
           targetUrl |-> u,
           policyEvaluated |-> {toString(u)},
           fetches |-> IF method # "GET" /\ method # "HEAD" THEN <<>>
                       ELSE <<fetchCall(u, method, Undefined)>>]

ProxyRequest(method, target) ==
  /\ conn = "none"
  /\ conn' = "proxy"
  /\ req' = [method |-> method, url |-> target]
  /\ LET o == proxyEntry(method, target)
     IN /\ pc' = o.pc
        /\ res' = o.res
        /\ targetUrl' = o.targetUrl
        /\ policyEvaluated' = o.policyEvaluated
        /\ fetches' = o.fetches
  /\ UNCHANGED <<ALLOWLIST, BLOCKLIST, ENABLE_REWRITE, chosen, reads,
                 clientGone, app, links, call, ret, inbound,
                 chunks, size, upstream, ws>>

(***************************************************************************)
(* Body guard, lines 97-109.                                               *)
(***************************************************************************)
\* Mutant of exceedsLimit: a body of exactly the limit is refused too
exceedsLimitInclusive(n) == n >= MAX_BODY_MB * 1024 * 1024

exceedsLimit(n) == n > MAX_BODY_MB * 1024 * 1024

\* one turn of the for-await loop on a chunk of c bytes
ReadChunk(c) ==
  /\ pc = "readBody"
  /\ ~clientGone
  /\ Len(inbound) < MaxChunks
  /\ inbound' = Append(inbound, c)
  /\ size' = size + c
  /\ IF exceedsLimit(size + c)
     THEN /\ res' = statusSend(res, 413, "Payload too large")
          /\ pc' = "done"
          /\ chunks' = chunks
     ELSE /\ chunks' = Append(chunks, c)
          /\ UNCHANGED <<res, pc>>
  /\ UNCHANGED <<ALLOWLIST, BLOCKLIST, ENABLE_REWRITE, chosen, reads,
                 clientGone, app, links, call, ret, conn, req,
                 targetUrl, policyEvaluated, fetches, upstream, ws>>

\* the request stream ends: body = Buffer.concat(chunks), then the fetch
EndOfBody ==
  /\ pc = "readBody"
  /\ ~clientGone
  /\ fetches' = Append(fetches, fetchCall(targetUrl, req.method, chunks))
  /\ pc' = "fetching"
  /\ UNCHANGED <<ALLOWLIST, BLOCKLIST, ENABLE_REWRITE, chosen, reads,
                 clientGone, app, links, call, ret, conn, req,
                 inbound, targetUrl, chunks, size, policyEvaluated, upstream,
                 res, ws>>

(***************************************************************************)
(* Upstream fetch, lines 111-121, and the response pipeline to the point   *)
(* where a path is chosen, lines 123-153.                                  *)
(***************************************************************************)
\* Mutant of FetchFails: the failed fetch is issued again
FetchFailsRetry ==
  /\ pc = "fetching"
  /\ fetches' = Append(fetches, fetches[Len(fetches)])
  /\ UNCHANGED <<ALLOWLIST, BLOCKLIST, ENABLE_REWRITE, chosen, reads,
                 clientGone, app, links, call, ret, conn, req,
                 inbound, targetUrl, chunks, size, policyEvaluated, upstream,
                 res, ws, pc>>

\* the fetch rejects: 502, once
FetchFails ==
  /\ pc = "fetching"
  /\ upstream' = [NoUpstream EXCEPT !.state = "failed"]
  /\ res' = statusSend(res, 502, "Upstream fetch failed")
  /\ pc' = "done"
  /\ UNCHANGED <<ALLOWLIST, BLOCKLIST, ENABLE_REWRITE, chosen, reads,
                 clientGone, app, links, call, ret, conn, req,
                 inbound, targetUrl, chunks, size, policyEvaluated, fetches,
                 ws>>

\* the names the copy loop of lines 131-137 passes to res.setHeader
relayedNames(up) ==
  {k \in DOMAIN up :
     /\ nameToLowerCase(k) \notin hopByHop
     /\ nameToLowerCase(k) \notin framingHeaders}

relayHeaders(h, up) ==
  LET names == relayedNames(up)
  IN [x \in DOMAIN h \cup {nameToLowerCase(k) : k \in names} |->
        IF \E k \in names : nameToLowerCase(k) = x
        THEN LET k == CHOOSE n \in names : nameToLowerCase(n) = x
             IN [name |-> k, value |-> up[k]]
        ELSE h[x]]

LocationName == Cased("location", {1})

\* lines 140-144: Location rewritten to go through the proxy
rewriteLocation(h, base, up) ==
  LET location == headersGet(up, Name("location"))
      abs == absoluteUrl(base, location)
  IN IF truthy(location) /\ truthy(abs)
     THEN setHeader(h, LocationName, toProxyUrl(abs))
     ELSE h

TextHtml == <<"t","e","x","t","/","h","t","m","l">>

\* Mutant of streamsThrough: ENABLE_REWRITE is not consulted
streamsThroughHtmlOnly(up) ==
  LET ct == headersGet(up, Name("content-type"))
      contentType == IF truthy(ct) THEN ct ELSE <<>>
  IN ~startsWith(contentType, TextHtml)

\* lines 146-150: TRUE when the body is piped through as it is
streamsThrough(up) ==
  LET ct == headersGet(up, Name("content-type"))
      contentType == IF truthy(ct) THEN ct ELSE <<>>
      isHtml == startsWith(contentType, TextHtml)
  IN ~isHtml \/ ~ENABLE_REWRITE

\* the fetch resolves with a response of the given status, headers and
\* body; the response to a HEAD request has no body
FetchResponds(status, wire, body) ==
  /\ pc = "fetching"
  /\ LET up == Headers(wire)
     IN /\ upstream' = [state |-> "ok", status |-> status, headers |-> up,
                        body |-> IF req.method = "HEAD" THEN <<>> ELSE body]
        /\ res' = [res EXCEPT
                     !.statusCode = status,
                     !.headers = rewriteLocation(relayHeaders(@, up),
                                                 targetUrl, up)]
        /\ chosen' = IF streamsThrough(up) THEN "stream" ELSE "rewrite"
        /\ pc' = IF streamsThrough(up) THEN "streaming" ELSE "buffering"
  /\ UNCHANGED <<ALLOWLIST, BLOCKLIST, ENABLE_REWRITE, reads, clientGone,
                 app, links, call, ret, conn, req, inbound, targetUrl,
                 chunks, size, policyEvaluated, fetches, ws>>

(***************************************************************************)
(* The client goes away while its request is being served.                 *)
(***************************************************************************)
ClientDisconnect ==
  /\ conn = "proxy"
  /\ pc \in {"readBody", "fetching", "streaming", "buffering"}
  /\ ~clientGone
  /\ clientGone' = TRUE
  /\ UNCHANGED <<ALLOWLIST, BLOCKLIST, ENABLE_REWRITE, chosen, reads, app,
                 links, call, ret, conn, pc, req, inbound, targetUrl, chunks,
                 size, policyEvaluated, fetches, upstream, res, ws>>

\* what becomes of the server when the promise of the async handler
\* rejects: nobody handles the rejection, so the runtime either only
\* reports it ("rejected": the handler is over, the response untouched) or
\* terminates the process ("crashed": every connection is closed)
UnhandledRejection == {"rejected", "crashed"}

\* the for-await loop of line 100 throws on the aborted request: the
\* handler's promise rejects, nothing is sent
BodyAborted ==
  /\ pc = "readBody"
  /\ clientGone
  /\ pc' \in UnhandledRejection
  /\ UNCHANGED <<ALLOWLIST, BLOCKLIST, ENABLE_REWRITE, chosen, reads,
                 clientGone, app, links, call, ret, conn, req, inbound,
                 targetUrl, chunks, size, policyEvaluated, fetches, upstream,
                 res, ws>>

(***************************************************************************)
(* Documents. A body is a sequence of chunks, a chunk a sequence of nodes;  *)
(* a node is an element with one attribute, or text (tag "#text").         *)
(***************************************************************************)
Elem(tag, attr, value) == [tag |-> tag, attr |-> attr, value |-> value]

RECURSIVE Flatten(_)
Flatten(q) == IF q = <<>> THEN <<>> ELSE Head(q) \o Flatten(Tail(q))

DigitChars == <<"0","1","2","3","4","5","6","7","8","9">>

\* String(n) for a natural number
RECURSIVE DecimalText(_)
DecimalText(n) ==
  IF n < 10 THEN <<DigitChars[n + 1]>>
  ELSE DecimalText(n \div 10) \o <<DigitChars[(n % 10) + 1]>>

\* Buffer.byteLength of a serialised document: the bytes of each node's
\* text next to one for its markup
RECURSIVE byteLength(_)
byteLength(doc) ==
  IF doc = <<>> THEN 0
  ELSE Len(Head(doc).value) + 1 + byteLength(Tail(doc))

ResourceTags == {"img", "script", "link", "source", "video", "audio"}

\* lines 163-185 on one node: what the three loops leave of it
rewriteNode(e, base) ==
  LET abs == absoluteUrl(base, e.value)
      rewritten == IF truthy(abs) THEN [e EXCEPT !.value = toProxyUrl(abs)]
                   ELSE e
  IN IF e.tag = "a" /\ e.attr = "href" THEN rewritten
     ELSE IF e.tag \in ResourceTags /\ e.attr \in {"src", "href"}
          THEN IF ~truthy(e.value) THEN e ELSE rewritten
     ELSE IF e.tag = "form" /\ e.attr = "action" THEN rewritten
     ELSE e

\* line 160
BaseNode(base) == Elem("base", "href", toString(base))

\* lines 188-212
InjectedScript == Elem("script", "none", <<"f","e","t","c","h">>)

\* lines 157-214: the document parsed, mutated and serialised
rewriteDocument(doc, base) ==
  <<BaseNode(base)>> \o [i \in DOMAIN doc |-> rewriteNode(doc[i], base)]
    \o <<InjectedScript>>

(***************************************************************************)
(* Streaming path, line 152, and rewrite path, lines 156-216.              *)
(***************************************************************************)
\* Mutant of StreamChunk: the chunk is written twice
StreamChunkTwice ==
  /\ pc = "streaming"
  /\ ~clientGone
  /\ Len(reads) < Len(upstream.body)
  /\ reads' = Append(reads, [by |-> "pipe", idx |-> Len(reads) + 1])
  /\ res' = [res EXCEPT !.written = @ \o upstream.body[Len(reads) + 1]
                                      \o upstream.body[Len(reads) + 1]]
  /\ UNCHANGED <<ALLOWLIST, BLOCKLIST, ENABLE_REWRITE, chosen, clientGone, app,
                 links, call, ret, conn, pc, req, inbound, targetUrl, chunks,
                 size, policyEvaluated, fetches, upstream, ws>>

\* the pipeline moves the next chunk of the upstream body to the client
StreamChunk ==
  /\ pc = "streaming"
  /\ ~clientGone
  /\ Len(reads) < Len(upstream.body)
  /\ reads' = Append(reads, [by |-> "pipe", idx |-> Len(reads) + 1])
  /\ res' = [res EXCEPT !.written = @ \o upstream.body[Len(reads) + 1]]
  /\ UNCHANGED <<ALLOWLIST, BLOCKLIST, ENABLE_REWRITE, chosen, clientGone, app,
                 links, call, ret, conn, pc, req, inbound, targetUrl, chunks,
                 size, policyEvaluated, fetches, upstream, ws>>

\* the pipeline completes: the response is ended after the last byte
PipeDone ==
  /\ pc = "streaming"
  /\ ~clientGone
  /\ Len(reads) = Len(upstream.body)
  /\ res' = [res EXCEPT !.ended = @ + 1, !.body = "upstream"]
  /\ pc' = "done"
  /\ UNCHANGED <<ALLOWLIST, BLOCKLIST, ENABLE_REWRITE, chosen, reads,
                 clientGone, app, links, call, ret, conn, req, inbound,
                 targetUrl, chunks, size, policyEvaluated, fetches, upstream,
                 ws>>

\* the pipeline rejects, on an upstream error or a client gone: the catch
\* handler ends the response
PipeError ==
  /\ pc = "streaming"
  /\ res' = [res EXCEPT !.ended = @ + 1, !.body = "partial"]
  /\ pc' = "done"
  /\ UNCHANGED <<ALLOWLIST, BLOCKLIST, ENABLE_REWRITE, chosen, reads,
                 clientGone, app, links, call, ret, conn, req, inbound,
                 targetUrl, chunks, size, policyEvaluated, fetches, upstream,
                 ws>>

\* Mutant of textRuns: the return of line 152 is missing
textRunsAlways == pc \in {"buffering", "streaming"}

\* upstream.text() of line 156 is reached on the rewrite path only
textRuns == pc = "buffering"

\* upstream.text() takes the next chunk of the upstream body
ReadText ==
  /\ textRuns
  /\ Len(reads) < Len(upstream.body)
  /\ reads' = Append(reads, [by |-> "text", idx |-> Len(reads) + 1])
  /\ UNCHANGED <<ALLOWLIST, BLOCKLIST, ENABLE_REWRITE, chosen, clientGone, app,
                 links, call, ret, conn, pc, req, inbound, targetUrl, chunks,
                 size, policyEvaluated, fetches, upstream, res, ws>>

HtmlUtf8 ==
  TextHtml \o <<";"," ","c","h","a","r","s","e","t","=","u","t","f","-","8">>

\* the chunks upstream.text() has taken, decoded
htmlText ==
  Flatten([i \in DOMAIN reads |->
             IF reads[i].by = "text" THEN upstream.body[reads[i].idx]
             ELSE <<>>])

\* Mutant of send: the Content-Length in place is kept
sendKeepLength(r, out) ==
  LET h == IF Name("etag") \in DOMAIN r.headers THEN r.headers
           ELSE setHeader(r.headers, Cased("etag", {1, 2}), <<"W","/">>)
  IN [r EXCEPT !.headers = h,
               !.written = out,
               !.ended = @ + 1,
               !.afterGone = IF clientGone THEN @ + 1 ELSE @]

\* res.send(out) of a string: Content-Length is set to its byte length, an
\* ETag is added when there is none, and the body is written and ended
send(r, out) ==
  LET l == setHeader(r.headers, Cased("content-length", {1, 9}),
                     DecimalText(byteLength(out)))
      h == IF Name("etag") \in DOMAIN l THEN l
           ELSE setHeader(l, Cased("etag", {1, 2}), <<"W","/">>)
  IN [r EXCEPT !.headers = h,
               !.written = out,
               !.ended = @ + 1,
               !.afterGone = IF clientGone THEN @ + 1 ELSE @]

\* Mutant of RewriteSend: the content-type is set after the document is sent
RewriteSendLate ==
  /\ pc = "buffering"
  /\ Len(reads) = Len(upstream.body)
  /\ res' = [resSetHeader(send(res, rewriteDocument(htmlText, targetUrl)),
                          Name("content-type"), HtmlUtf8)
               EXCEPT !.body = "rewritten"]
  /\ pc' = "done"
  /\ UNCHANGED <<ALLOWLIST, BLOCKLIST, ENABLE_REWRITE, chosen, reads,
                 clientGone, app, links, call, ret, conn, req, inbound,
                 targetUrl, chunks, size, policyEvaluated, fetches, upstream,
                 ws>>

\* upstream.text() resolves: the document is rewritten and sent
RewriteSend ==
  /\ pc = "buffering"
  /\ Len(reads) = Len(upstream.body)
  /\ res' = [send(resSetHeader(res, Name("content-type"), HtmlUtf8),
                  rewriteDocument(htmlText, targetUrl))
               EXCEPT !.body = "rewritten"]
  /\ pc' = "done"
  /\ UNCHANGED <<ALLOWLIST, BLOCKLIST, ENABLE_REWRITE, chosen, reads,
                 clientGone, app, links, call, ret, conn, req, inbound,
                 targetUrl, chunks, size, policyEvaluated, fetches, upstream,
                 ws>>

\* upstream.text() rejects: the handler's promise rejects, nothing is sent
TextRejects ==
  /\ pc = "buffering"
  /\ pc' \in UnhandledRejection
  /\ UNCHANGED <<ALLOWLIST, BLOCKLIST, ENABLE_REWRITE, chosen, reads,
                 clientGone, app, links, call, ret, conn, req, inbound,
                 targetUrl, chunks, size, policyEvaluated, fetches, upstream,
                 res, ws>>

(***************************************************************************)
(* server.on('upgrade'), lines 228-243.                                    *)
(***************************************************************************)
Localhost ==
  parseURL(http \o <<":","/","/","l","o","c","a","l","h","o","s","t">>,
           NoBase)

WsPath == <<"/","w","s">>

\* url.searchParams.get(name): null when the parameter is absent
searchParamsGet(u, name) ==
  LET parts == IF u.query = <<>> THEN <<>> ELSE splitAmp(u.query)
      hits == {i \in 1..Len(parts) : partKey(parts[i]) = name}
  IN IF hits = {} THEN Null
     ELSE partValue(parts[CHOOSE i \in hits : \A j \in hits : i <= j])

\* Mutant of wsPathMatches: the path check is left out
wsPathAny(u) == TRUE

wsPathMatches(u) == u.pathname = WsPath

\* what the handler does with the socket of an upgrade request for reqUrl
upgradeOutcome(reqUrl) ==
  LET url == parseURL(reqUrl, Localhost)
      target == searchParamsGet(url, urlParam)
      tUrl == parseURL(target, NoBase)
      destroyed(evaluated) ==
        [socket |-> "destroyed", tunnelTarget |-> <<>>,
         policyEvaluated |-> evaluated]
  IN IF ~url.ok THEN destroyed({})
     ELSE IF ~wsPathMatches(url) THEN destroyed({})
     ELSE IF ~truthy(target) THEN destroyed({})
     ELSE IF ~tUrl.ok THEN destroyed({})
     ELSE IF ~isAllowed(tUrl) THEN destroyed({toString(tUrl)})
     ELSE [socket |-> "tunnel", tunnelTarget |-> origin(tUrl),
           policyEvaluated |-> {toString(tUrl)}]

UrlEquals == <<"?","u","r","l","=">>

\* an upgrade request for path, with or without a url parameter
Upgrade(path, hasParam, target) ==
  /\ conn = "none"
  /\ LET reqUrl == path \o (IF hasParam
                            THEN UrlEquals \o encodeURIComponent(target)
                            ELSE <<>>)
         o == upgradeOutcome(reqUrl)
     IN /\ ws' = [path |-> path, hasParam |-> hasParam, target |-> target,
                  reqUrl |-> reqUrl, socket |-> o.socket,
                  tunnelTarget |-> o.tunnelTarget, statusWritten |-> FALSE]
        /\ policyEvaluated' = o.policyEvaluated
  /\ conn' = "ws"
  /\ UNCHANGED <<ALLOWLIST, BLOCKLIST, ENABLE_REWRITE, chosen, reads,
                 clientGone, app, links, call, ret, pc, req,
                 inbound, targetUrl, chunks, size, fetches, upstream, res>>

(***************************************************************************)
(* Inputs: the environment, requests and upstream responses the model      *)
(* draws from.                                                             *)
(***************************************************************************)
Slashes == <<":","/","/">>
HostAB == <<"a",".","b">>
HostCB == <<"c",".","b">>
HostE == <<"e">>
StarB == <<"*",".","b">>

\* ALLOWLIST and BLOCKLIST as .split(',').filter(Boolean) leaves them:
\* lists of non-empty rules
RuleLists == {<<>>, <<StarB>>, <<HostCB>>, <<HostE, StarB>>}

\* <<ALLOWLIST, BLOCKLIST>> of the server runs
RuleConfigs ==
  {<<(<<>>), (<<>>)>>, <<(<<StarB>>), (<<>>)>>, <<(<<>>), (<<HostCB>>)>>,
   <<(<<HostE, StarB>>), (<<HostCB>>)>>}

Methods == {"GET", "HEAD", "POST"}

\* values of req.query.url
ProxyTargets ==
  {Undefined, <<>>,
   HostAB \o <<"/","x">>,
   http \o Slashes,
   ftp \o Slashes \o HostAB \o <<"/">>,
   http \o Slashes \o HostAB \o <<"/","p","/","q">>,
   https \o Slashes \o HostCB,
   <<"H","T","T","P">> \o Slashes \o <<"E">> \o <<"/","?","x","=","y"," ","z">>}

ChunkSizes == {1, BodyLimit - 1, BodyLimit, BodyLimit + 1}

\* values of an upstream Location header
Locations ==
  {<<>>,
   <<"/","n","e","w">>,
   <<"n","?","a","=","b","&","c">>,
   http \o Slashes \o HostCB \o <<"/">>,
   http \o Slashes,
   <<"/","/","e"," ","e">>}

\* values of an upstream content-type header
ContentTypes == {TextHtml \o <<";","x">>, <<"t","e","x","t","/","x">>}

\* header names as the upstream writes them
ProbeNames ==
  hopByHop \cup framingHeaders
    \cup {Cased("connection", {1}), Cased("te", {1, 2}),
          Cased("upgrade", {1}), Cased("x-frame-options", {1, 3, 9}),
          Cased("content-security-policy", {1, 9, 18}),
          Name("etag"), Cased("set-cookie", {1, 5}), Name("content-length")}

Opaque == <<"v">>

\* the header blocks of upstream responses: one probe header, alone or with
\* an HTML content-type, or at most one Location and at most one
\* content-type
WireHeaders ==
  LET one(k, v) == [x \in {k} |-> v]
      probes == {one(k, Opaque) : k \in ProbeNames}
      locs == {<<>>} \cup {one(LocationName, v) : v \in Locations}
      cts == {<<>>} \cup {one(Cased("content-type", {1, 9}), v) :
                             v \in ContentTypes}
      html == one(Name("content-type"), TextHtml)
  IN probes \cup {l @@ c : l \in locs, c \in cts}
       \cup {p @@ html : p \in probes}

NodeA == Elem("a", "href", <<"/","n">>)
NodeImg == Elem("img", "src", <<"x">>)
NodeText == Elem("#text", "none", <<"t">>)
NodeJs == Elem("a", "href", <<"j","a","v","a","s","c","r","i","p","t",":","x">>)

NodeMailto == Elem("form", "action", <<"m","a","i","l","t","o",":","x">>)
NodeEmpty == Elem("a", "href", <<>>)
NodeEmptyImg == Elem("img", "src", <<>>)
NodeBad == Elem("link", "href", http \o Slashes)

\* upstream bodies, in chunks
Bodies ==
  {<<>>, <<(<<NodeA>>)>>, <<(<<NodeJs>>)>>,
   <<(<<NodeA>>), (<<NodeImg, NodeText>>)>>,
   <<(<<NodeMailto, NodeEmpty>>), (<<NodeEmptyImg, NodeBad>>)>>}

\* upstream responses: a redirect status when a Location comes with it;
\* every header block with a body of one chunk, and every body with no
\* header, with an HTML content-type (alone or next to a Content-Length)
\* and with another content-type
UpstreamResponses ==
  LET statusOf(w) == IF LocationName \in DOMAIN w THEN 301 ELSE 200
      one(k, v) == [x \in {k} |-> v]
      plain == {<<>>, one(Name("content-type"), TextHtml)
                        @@ one(Cased("content-length", {1, 9}), <<"3">>)}
                 \cup {one(Name("content-type"), v) :
                         v \in {TextHtml, <<"t","e","x","t","/","x">>}}
  IN {[status |-> statusOf(w), wire |-> w, body |-> <<(<<NodeA>>)>>] :
        w \in WireHeaders}
       \cup {[status |-> 200, wire |-> w, body |-> b] :
               w \in plain, b \in Bodies}

WsPaths == {WsPath, <<"/","p","r","o","x","y">>, <<"/","w","s","/","x">>}

WsScheme == <<"w","s">>

\* values of the url parameter of an upgrade request
WsTargets ==
  {<<>>,
   HostAB,
   WsScheme \o Slashes,
   WsScheme \o Slashes \o HostAB \o <<"/","x","?","k","=","v","&","w"," ","+">>,
   <<"W","S","S">> \o Slashes \o <<"C",".","b">>,
   http \o Slashes \o HostE \o <<"/">>,
   <<"m","a","i","l","t","o",":","x">>}

(***************************************************************************)
(* Specification of the server: one connection at a time, connections      *)
(* sharing nothing but the read-only rule lists.                           *)
(***************************************************************************)
ConnIdle ==
  /\ conn = "none"
  /\ pc = "idle"
  /\ req = [method |-> "GET", url |-> Undefined]
  /\ inbound = <<>>
  /\ targetUrl = Failure
  /\ chunks = <<>>
  /\ size = 0
  /\ policyEvaluated = {}
  /\ fetches = <<>>
  /\ upstream = NoUpstream
  /\ res = FreshRes
  /\ ws = WsNone
  /\ chosen = "none"
  /\ reads = <<>>
  /\ clientGone = FALSE

Init ==
  /\ \E cfg \in RuleConfigs :
       /\ ALLOWLIST = cfg[1]
       /\ BLOCKLIST = cfg[2]
  /\ ENABLE_REWRITE \in BOOLEAN
  /\ call = NoCall
  /\ ret = NoRet
  /\ ConnIdle
  /\ app = AppIdle
  /\ links = {}

Next ==
  \/ \E m \in Methods, t \in ProxyTargets : ProxyRequest(m, t)
  \/ \E c \in ChunkSizes : ReadChunk(c)
  \/ EndOfBody
  \/ FetchFails
  \/ \E r \in UpstreamResponses : FetchResponds(r.status, r.wire, r.body)
  \/ ClientDisconnect
  \/ BodyAborted
  \/ StreamChunk
  \/ PipeDone
  \/ PipeError
  \/ ReadText
  \/ RewriteSend
  \/ TextRejects
  \/ \E p \in WsPaths, hp \in BOOLEAN, t \in WsTargets : Upgrade(p, hp, t)

Spec == Init /\ [][Next]_vars

(***************************************************************************)
(* Specification of the helpers called directly: one call per behaviour,   *)
(* its arguments drawn from bounded sets.                                  *)
(***************************************************************************)
HostAlphabet == {"b", "c", "."}
RuleAlphabet == {"*", ".", "b", "c"}

HostTexts == Texts(HostAlphabet, MaxHostLen)
RuleTexts == Texts(RuleAlphabet, MaxRuleLen) \ {<<>>}

\* rule lists of matchesList calls: one rule of RuleTexts, alone or next to
\* a fixed rule
MatchLists ==
  {<<>>} \cup {<<r>> : r \in RuleTexts}
    \cup {<<r, HostCB>> : r \in RuleTexts}
    \cup {<<(<<"b">>), r>> : r \in RuleTexts}

\* rule lists of isAllowed calls
PolicyLists ==
  {<<>>, <<StarB>>, <<HostCB>>, <<(<<"b">>), StarB>>, <<(<<"*",".","c">>)>>}

CodecSchemes == {http, https, <<"H","t","t","p">>}
CodecHosts == {HostAB, <<"A",".","b">>}
CodecPaths == {<<>>, <<"/">>, <<"/","p">>, <<"/","p"," ","q">>}
CodecQueries ==
  {<<>>,
   <<"?","x","=","a","&","y","=","b">>,
   <<"?","q","=","a","+","b">>,
   <<"?","q","=","%","2","0","&","r">>,
   <<"?","q","=","'",";","/","?",":","@","$",",">>,
   <<"?","a"," ","b">>}

\* absolute http/https URLs
CodecUrls ==
  {sc \o Slashes \o h \o pa \o q :
     sc \in CodecSchemes, h \in CodecHosts, pa \in CodecPaths,
     q \in CodecQueries}

PureInit ==
  /\ ConnIdle
  /\ app = AppIdle
  /\ links = {}
  /\ ENABLE_REWRITE = TRUE
  /\ ret = NoRet
  /\ \/ /\ ALLOWLIST = <<>>
        /\ BLOCKLIST = <<>>
        /\ call \in {[fn |-> "matchesList", host |-> h, list |-> l] :
                       h \in HostTexts, l \in MatchLists}
     \/ /\ ALLOWLIST \in PolicyLists
        /\ BLOCKLIST \in PolicyLists
        /\ call \in {[fn |-> "isAllowed", urlObj |-> [hostname |-> h]] :
                       h \in HostTexts}
     \/ /\ ALLOWLIST = <<>>
        /\ BLOCKLIST = <<>>
        /\ call \in {[fn |-> "toProxyUrl", target |-> u] : u \in CodecUrls}

Returned(v) == [state |-> "returned", val |-> v]
Threw == [state |-> "threw", val |-> <<>>]

CallMatchesList ==
  /\ call.fn = "matchesList"
  /\ ret = NoRet
  /\ ret' = Returned(matchesList(call.host, call.list))
  /\ UNCHANGED <<ALLOWLIST, BLOCKLIST, ENABLE_REWRITE, chosen, reads,
                 clientGone, app, links, call, conn, pc, req,
                 inbound, targetUrl, chunks, size, policyEvaluated, fetches,
                 upstream, res, ws>>

CallIsAllowed ==
  /\ call.fn = "isAllowed"
  /\ ret = NoRet
  /\ ret' = Returned(isAllowed(call.urlObj))
  /\ UNCHANGED <<ALLOWLIST, BLOCKLIST, ENABLE_REWRITE, chosen, reads,
                 clientGone, app, links, call, conn, pc, req,
                 inbound, targetUrl, chunks, size, policyEvaluated, fetches,
                 upstream, res, ws>>

CallToProxyUrl ==
  /\ call.fn = "toProxyUrl"
  /\ ret = NoRet
  /\ ret' = IF toProxyUrlThrows(call.target) THEN Threw
            ELSE Returned(toProxyUrl(call.target))
  /\ UNCHANGED <<ALLOWLIST, BLOCKLIST, ENABLE_REWRITE, chosen, reads,
                 clientGone, app, links, call, conn, pc, req,
                 inbound, targetUrl, chunks, size, policyEvaluated, fetches,
                 upstream, res, ws>>

PureNext ==
  \/ CallMatchesList
  \/ CallIsAllowed
  \/ CallToProxyUrl

PureSpec == PureInit /\ [][PureNext]_vars

(***************************************************************************)
(* src/app.js: the path-based proxy /p/<host>/<path>, lines 9-94. A        *)
(* character outside ASCII is written as its code point.                   *)
(***************************************************************************)
MaxAppRequests == 3

APPROVED_HOSTS ==
  << <<"w","w","w",".","g","o","o","g","l","e",".","c","o","m">>,
     <<"g","o","o","g","l","e",".","c","o","m">>,
     <<"w","w","w",".","y","o","u","t","u","b","e",".","c","o","m">>,
     <<"y","o","u","t","u","b","e",".","c","o","m">>,
     <<"w","w","w",".","k","h","a","n","a","c","a","d","e","m","y",".","o","r","g">>,
     <<"k","h","a","n","a","c","a","d","e","m","y",".","o","r","g">>,
     <<"j","a",".","k","h","a","n","a","c","a","d","e","m","y",".","o","r","g">>,
     <<"w","w","w",".","w","i","k","i","p","e","d","i","a",".","o","r","g">>,
     <<"j","a",".","w","i","k","i","p","e","d","i","a",".","o","r","g">>,
     <<"w","w","w",".","n","h","k",".","o","r",".","j","p">>,
     <<"w","w","w",".","e","d","u","-","t","o","w","n",".","e","d",".","j","p">>,
     <<"w","w","w",".","m","e","x","t",".","g","o",".","j","p">>,
     <<"k","i","d","s",".","y","a","h","o","o",".","c","o",".","j","p">>,
     <<"w","w","w",".","b","e","n","e","s","s","e",".","c","o",".","j","p">>,
     <<"w","w","w",".","z","U+4F1A",".","j","p">>,
     <<"s","c","r","a","t","c","h",".","m","i","t",".","e","d","u">>,
     <<"c","o","d","e",".","o","r","g">>,
     <<"w","w","w",".","b","b","c",".","c","o",".","u","k","/","l","e","a","r","n","i","n","g">>,
     <<"w","w","w",".","d","u","o","l","i","n","g","o",".","c","o","m">>,
     <<"q","u","i","z","l","e","t",".","c","o","m">> >>

\* Mutant of hostApproved: a host that ends with an entry passes
hostApprovedSuffix(host) ==
  \E i \in DOMAIN APPROVED_HOSTS : endsWith(host, APPROVED_HOSTS[i])

\* APPROVED_HOSTS.includes(host)
hostApproved(host) ==
  \E i \in DOMAIN APPROVED_HOSTS : APPROVED_HOSTS[i] = host

PPrefix == <<"/","p","/">>

\* req.path: the request URL without its query string
reqPath(p) == SubSeq(p, 1, FirstIn(p, {"?"}) - 1)

\* req.params.host of the route /p/:host*: the segment after /p/, decoded
paramsHost(p) ==
  LET rest == slice(reqPath(p), 3)
  IN decodeURIComponent(SubSeq(rest, 1, FirstIn(rest, {"/"}) - 1))

\* req.params[0] of the route: what follows the host segment, for request
\* paths of at most one further segment
paramsStar(p) ==
  LET rest == slice(reqPath(p), 3)
  IN SubSeq(rest, FirstIn(rest, {"/"}), Len(rest))

\* lines 48-49
appTarget(host, star) ==
  http \o Slashes \o host \o (IF truthy(star) THEN star ELSE <<"/">>)

\* the handler up to proxy(req, res, next): 403, or one middleware created
\* for the target and invoked
appEntry(p) ==
  LET host == paramsHost(p)
  IN IF ~hostApproved(host)
     THEN [state |-> "done", host |-> host, status |-> 403,
           created |-> <<>>, invoked |-> FALSE]
     ELSE [state |-> "proxying", host |-> host, status |-> 0,
           created |-> <<appTarget(host, paramsStar(p))>>,
           invoked |-> TRUE]

\* a request for path p, typed by the user or taken from a rewritten link
AppRequest(p, viaLink) ==
  /\ app.state \in {"idle", "done", "failed"}
  /\ app.served < MaxAppRequests
  /\ LET o == appEntry(p)
     IN app' = [state |-> o.state, path |-> p, viaLink |-> viaLink,
                host |-> o.host, status |-> o.status,
                created |-> o.created, invoked |-> o.invoked,
                served |-> app.served + 1]
  /\ UNCHANGED <<ALLOWLIST, BLOCKLIST, ENABLE_REWRITE, chosen, reads,
                 clientGone, links, call, ret, conn, pc, req, inbound,
                 targetUrl, chunks, size, policyEvaluated, fetches, upstream,
                 res, ws>>

\* contentType && contentType.includes('text/html')
appIsHtml(ct) ==
  /\ truthy(ct)
  /\ \E k \in 1..(Len(ct) - Len(TextHtml) + 1) :
       SubSeq(ct, k, k + Len(TextHtml) - 1) = TextHtml

\* the selector of line 66 and the attribute chosen for each tag
appCovered(e) ==
  \/ e.tag \in {"a", "link"} /\ e.attr = "href"
  \/ e.tag = "form" /\ e.attr = "action"
  \/ e.tag \in {"script", "img", "iframe", "video", "audio", "source"}
       /\ e.attr = "src"

\* line 77: /p/${urlObj.host}${urlObj.pathname}${urlObj.search}
appLink(u) ==
  PPrefix \o u.hostname \o u.pathname
    \o (IF u.hasQuery /\ u.query # <<>> THEN <<"?">> \o u.query ELSE <<>>)

\* the response interceptor on the upstream answer: the links of an HTML
\* document are rewritten to /p/ paths, whatever their host; new URL
\* throwing on one of them fails the interceptor
AppResponse(ct, doc) ==
  /\ app.state = "proxying"
  /\ LET base == parseURL(app.created[1], NoBase)
         rewritable == {i \in DOMAIN doc :
                          appCovered(doc[i]) /\ truthy(doc[i].value)}
         urlObj(i) == parseURL(doc[i].value, base)
     IN IF ~appIsHtml(ct)
        THEN /\ app' = [app EXCEPT !.state = "done", !.status = 200]
             /\ links' = links
        ELSE IF \E i \in rewritable : ~urlObj(i).ok
        THEN /\ app' = [app EXCEPT !.state = "failed"]
             /\ links' = links
        ELSE /\ app' = [app EXCEPT !.state = "done", !.status = 200]
             /\ links' = links \cup {appLink(urlObj(i)) : i \in rewritable}
  /\ UNCHANGED <<ALLOWLIST, BLOCKLIST, ENABLE_REWRITE, chosen, reads,
                 clientGone, call, ret, conn, pc, req, inbound, targetUrl,
                 chunks, size, policyEvaluated, fetches, upstream, res, ws>>

GoogleCom == <<"g","o","o","g","l","e",".","c","o","m">>
BbcHost == <<"w","w","w",".","b","b","c",".","c","o",".","u","k">>

\* the host segments of requests typed by the user
AppHosts ==
  {GoogleCom, <<"c","o","d","e",".","o","r","g">>,
   <<"G">> \o Tail(GoogleCom), <<"x",".">> \o GoogleCom,
   GoogleCom \o <<".","e">>, <<"e",".","x">>,
   BbcHost, BbcHost \o <<"%","2","F","l","e","a","r","n","i","n","g">>}

AppPaths == {PPrefix \o h \o r : h \in AppHosts, r \in {<<>>, <<"/","y">>}}

\* upstream documents of the path-based proxy
AppDocs ==
  {<<>>,
   <<Elem("a", "href", http \o Slashes \o <<"e",".","x","/","z","?","q">>),
     Elem("img", "src", <<"/","i">>)>>,
   <<Elem("iframe", "src", <<"/","/">> \o GoogleCom),
     Elem("a", "src", <<"/","k">>)>>,
   <<Elem("form", "action", http \o Slashes)>>}

AppContentTypes == {Undefined, <<"a",";"," ">> \o TextHtml, <<"t","e","x","t","/","x">>}

AppInit ==
  /\ ConnIdle
  /\ ALLOWLIST = <<>>
  /\ BLOCKLIST = <<>>
  /\ ENABLE_REWRITE = TRUE
  /\ call = NoCall
  /\ ret = NoRet
  /\ app = AppIdle
  /\ links = {}

AppNext ==
  \/ \E p \in AppPaths : AppRequest(p, FALSE)
  \/ \E l \in links : AppRequest(l, TRUE)
  \/ \E ct \in AppContentTypes, doc \in AppDocs : AppResponse(ct, doc)

AppSpec == AppInit /\ [][AppNext]_vars

(***************************************************************************)
(* The policy decision and the rule matching as section 4.1 of the         *)
(* specification words them, written without the helpers of the code.      *)
(***************************************************************************)
\* h ends with the text of the wildcard rule r after its '*', or equals
\* the exact rule r
SpecRuleMatches(h, r) ==
  IF Len(r) >= 2 /\ r[1] = "*" /\ r[2] = "."
  THEN \E k \in 0..Len(h) : SubSeq(h, k + 1, Len(h)) = Tail(r)
  ELSE h = r

SpecListMatches(h, l) == \E i \in DOMAIN l : SpecRuleMatches(h, l[i])

SpecDecision(h, allow, block) ==
  IF SpecListMatches(h, block) THEN FALSE
  ELSE IF allow # <<>> /\ ~SpecListMatches(h, allow) THEN FALSE
  ELSE TRUE

(***************************************************************************)
(* C1                                                                      *)
(***************************************************************************)
\* the Location the handler rewrote for the response at hand, Null if none
RewrittenLocationTarget ==
  LET location == headersGet(upstream.headers, Name("location"))
      abs == absoluteUrl(targetUrl, location)
  IN IF /\ conn = "proxy"
        /\ upstream.state = "ok"
        /\ truthy(location)
        /\ truthy(abs)
        /\ Name("location") \in DOMAIN res.headers
        /\ res.headers[Name("location")].value = toProxyUrl(abs)
     THEN abs ELSE Null

\* C1: whenever the /proxy handler relays a Location header rewritten to a
\* ProxyURL, isAllowed has been evaluated on the resolved redirect target
\* for that response.
C1_LocationTargetEvaluated ==
  RewrittenLocationTarget # Null
    => RewrittenLocationTarget \in policyEvaluated

(***************************************************************************)
(* C2                                                                      *)
(***************************************************************************)
\* C2: an upstream fetch is issued for a /proxy request only if its url
\* parameter is present, parses as an absolute URL, has scheme http or
\* https and its hostname passes the policy; otherwise the request ends
\* with 400 (missing, malformed, other scheme) or 403 (policy), once, and no
\* fetch is issued for it.
C2_FetchOnlyAfterChecks ==
  conn = "proxy" =>
    LET t == req.url
        u == parseURL(t, NoBase)
        present == t # Undefined /\ t # <<>>
        schemeOk == present /\ u.ok /\ u.scheme \in {http, https}
        allowed == schemeOk /\ SpecDecision(u.hostname, ALLOWLIST, BLOCKLIST)
    IN IF allowed
       THEN \A i \in DOMAIN fetches : fetches[i].url = toString(u)
       ELSE /\ pc = "done"
            /\ fetches = <<>>
            /\ res.ended = 1
            /\ res.statusCode = IF schemeOk THEN 403 ELSE 400

\* a fetch has been issued for a target that an allow-list admits
C2_Witness_Fetch ==
  /\ conn = "proxy"
  /\ pc = "fetching"
  /\ Len(fetches) = 1
  /\ ALLOWLIST # <<>>
  /\ BLOCKLIST # <<>>

(***************************************************************************)
(* C3                                                                      *)
(***************************************************************************)
\* C3: isAllowed rejects a hostname that matches a block-rule whatever the
\* allow-rules are, otherwise rejects when the allow-rules are non-empty
\* and none matches, otherwise accepts.
C3_PolicyDecision ==
  (call.fn = "isAllowed" /\ ret.state = "returned")
    => ret.val = SpecDecision(call.urlObj.hostname, ALLOWLIST, BLOCKLIST)

\* block precedence at work: a host that an allow-rule and a block-rule
\* both match has been rejected
C3_Witness_BlockWins ==
  /\ call.fn = "isAllowed"
  /\ ret.state = "returned"
  /\ SpecListMatches(call.urlObj.hostname, ALLOWLIST)
  /\ SpecListMatches(call.urlObj.hostname, BLOCKLIST)
  /\ ret.val = FALSE

(***************************************************************************)
(* C4                                                                      *)
(***************************************************************************)
\* C4: matchesList(h, list) is true exactly when some rule of the list
\* matches h: a rule *.suffix when h ends with the rule's text after the
\* '*', an exact rule when h equals it.
C4_MatchesList ==
  (call.fn = "matchesList" /\ ret.state = "returned")
    => ret.val = SpecListMatches(call.host, call.list)

\* a wildcard rule, second in its list, has matched a longer hostname
C4_Witness_Wildcard ==
  /\ call.fn = "matchesList"
  /\ ret.state = "returned"
  /\ call.list = <<(<<"b">>), StarB>>
  /\ call.host = HostCB
  /\ ret.val = TRUE

(***************************************************************************)
(* C5                                                                      *)
(***************************************************************************)
\* the url parameter the /proxy handler reads from the ProxyURL returned
DecodedProxyUrl == queryParam(ret.val, urlParam)

\* C5 as stated: decoding the ProxyURL produced by toProxyUrl(u) yields
\* exactly u, for every absolute http/https URL u.
C5_RoundTripExact ==
  (call.fn = "toProxyUrl" /\ ret.state = "returned")
    => DecodedProxyUrl = call.target

\* C5 as amended: decoding the ProxyURL produced by toProxyUrl(u) yields the
\* serialised form new URL(u).toString() of u, which the handler's own
\* parsing leaves as it is; it is u itself when u is already serialised.
C5_RoundTripSerialised ==
  (call.fn = "toProxyUrl" /\ ret.state = "returned")
    => /\ startsWith(ret.val, ProxyPrefix)
       /\ DecodedProxyUrl = toString(parseURL(call.target, NoBase))
       /\ toString(parseURL(DecodedProxyUrl, NoBase)) = DecodedProxyUrl

\* a serialised URL whose query holds reserved characters came back as it
\* went in
C5_Witness_ReservedQuery ==
  /\ call.fn = "toProxyUrl"
  /\ ret.state = "returned"
  /\ "&" \in Range(call.target)
  /\ "=" \in Range(call.target)
  /\ DecodedProxyUrl = call.target

(***************************************************************************)
(* C6                                                                      *)
(***************************************************************************)
\* C6: whenever upstream supplies a Location header, the Location header
\* the client receives is the ProxyURL of that Location resolved against
\* the request's target URL, or is absent when the Location fails to
\* resolve; the raw upstream value is never relayed.
C6_LocationRewrittenOrDropped ==
  (/\ conn = "proxy"
   /\ upstream.state = "ok"
   /\ Name("location") \in DOMAIN upstream.headers)
    => LET abs == absoluteUrl(targetUrl, upstream.headers[Name("location")])
       IN IF abs # Null
          THEN /\ Name("location") \in DOMAIN res.headers
               /\ res.headers[Name("location")].value = toProxyUrl(abs)
          ELSE Name("location") \notin DOMAIN res.headers

(***************************************************************************)
(* C7                                                                      *)
(***************************************************************************)
DroppedHeaderTexts ==
  {"connection", "keep-alive", "proxy-authenticate", "proxy-authorization",
   "te", "trailers", "transfer-encoding", "upgrade", "x-frame-options",
   "content-security-policy", "content-security-policy-report-only"}

RECURSIVE SumSeq(_)
SumSeq(q) == IF q = <<>> THEN 0 ELSE Head(q) + SumSeq(Tail(q))

\* C8: for a method other than GET or HEAD, once the body read so far
\* exceeds MAX_BODY_MB megabytes the request has ended with 413, once, and
\* no fetch was issued; a body within the limit is never refused and the
\* fetch carries every chunk read, in order.
C8_BodyGuard ==
  (/\ conn = "proxy"
   /\ targetUrl.ok
   /\ req.method \notin {"GET", "HEAD"})
    => IF SumSeq(inbound) > MAX_BODY_MB * 1048576
       THEN /\ pc = "done"
            /\ res.statusCode = 413
            /\ res.ended = 1
            /\ fetches = <<>>
       ELSE /\ res.statusCode # 413
            /\ chunks = inbound
            /\ \A i \in DOMAIN fetches : fetches[i].body = inbound

\* a body went over the limit on its second chunk and was refused
C8_Witness_TooLarge ==
  /\ conn = "proxy"
  /\ req.method = "POST"
  /\ Len(inbound) = 2
  /\ inbound[1] <= MAX_BODY_MB * 1048576
  /\ res.statusCode = 413
  /\ fetches = <<>>

(***************************************************************************)
(* C9                                                                      *)
(***************************************************************************)
\* C9: at most one upstream fetch is issued for a /proxy request, and when
\* that fetch fails the request ends with exactly one 502 response.
C9_NoRetry ==
  conn = "proxy"
    => /\ Len(fetches) <= 1
       /\ upstream.state = "failed"
            => /\ pc = "done"
               /\ Len(fetches) = 1
               /\ res.statusCode = 502
               /\ res.ended = 1

\* the fetch of a POST request failed and was reported
C9_Witness_Failed ==
  /\ conn = "proxy"
  /\ req.method = "POST"
  /\ upstream.state = "failed"
  /\ res.statusCode = 502

(***************************************************************************)
(* C10                                                                     *)
(***************************************************************************)
\* the upgrade request at hand asks /ws for a well-formed target that the
\* policy admits
WsRequestValid ==
  /\ ws.path = <<"/","w","s">>
  /\ ws.hasParam
  /\ ws.target # <<>>
  /\ parseURL(ws.target, NoBase).ok
  /\ SpecDecision(parseURL(ws.target, NoBase).hostname, ALLOWLIST, BLOCKLIST)

\* C10: a tunnel is opened for an upgrade request only if its path is /ws
\* and its url parameter is present, well-formed and admitted by the
\* policy; in every other case the socket is destroyed, no tunnel is
\* opened and no HTTP response is written.
C10_UpgradeGate ==
  conn = "ws"
    => /\ ws.socket = "tunnel" => WsRequestValid
       /\ ~WsRequestValid
            => /\ ws.socket = "destroyed"
               /\ ws.tunnelTarget = <<>>
               /\ ~ws.statusWritten
               /\ res = FreshRes

\* a tunnel has been opened under a non-empty allow-list
C10_Witness_Tunnel ==
  /\ conn = "ws"
  /\ ws.socket = "tunnel"
  /\ ALLOWLIST # <<>>
  /\ ws.tunnelTarget = <<"w","s",":","/","/","a",".","b">>


(***************************************************************************)
(* C11                                                                     *)
(***************************************************************************)
\* the one reader of the path chosen
ReaderOf(p) == IF p = "stream" THEN "pipe" ELSE "text"

\* C11: no chunk of the upstream body is read before the path is chosen;
\* the chunks are read once each, in order, all by the one reader of the
\* chosen path (the pipeline of the Streaming Path or upstream.text() of
\* the Rewrite Path), never by both; a path that completes has read the
\* whole body.
C11_OnePathConsumes ==
  conn = "proxy"
    => /\ reads # <<>> => chosen \in {"stream", "rewrite"}
       /\ Len(reads) <= Len(upstream.body)
       /\ \A i \in DOMAIN reads :
            /\ reads[i].idx = i
            /\ reads[i].by = ReaderOf(chosen)
       /\ res.body \in {"upstream", "rewritten"}
            => Len(reads) = Len(upstream.body)

\* the Rewrite Path has read a body of two chunks and sent its document
C11_Witness_TextReadAll ==
  /\ conn = "proxy"
  /\ chosen = "rewrite"
  /\ pc = "done"
  /\ Len(reads) = 2
  /\ res.body = "rewritten"

(***************************************************************************)
(* C12                                                                     *)
(***************************************************************************)
IsPrefix(a, b) == Len(a) <= Len(b) /\ SubSeq(b, 1, Len(a)) = a

\* the upstream response at hand declares a content type starting with
\* text/html
UpstreamIsHtml ==
  \E k \in DOMAIN upstream.headers :
    /\ k.text = "content-type"
    /\ IsPrefix(<<"t","e","x","t","/","h","t","m","l">>, upstream.headers[k])

\* C12: the Streaming Path is the one chosen exactly when the upstream
\* content type does not start with text/html or rewriting is disabled;
\* with rewriting disabled what is written to the client is the upstream
\* body as it came, the whole of it when the transfer completes, with no
\* base element and no rewritten attribute.
C12_StreamingSelection ==
  (conn = "proxy" /\ upstream.state = "ok")
    => /\ chosen \in {"stream", "rewrite"}
       /\ chosen = "stream" <=> (~UpstreamIsHtml \/ ~ENABLE_REWRITE)
       /\ ~ENABLE_REWRITE
            => /\ IsPrefix(res.written, Flatten(upstream.body))
               /\ res.body # "rewritten"
               /\ res.body = "upstream"
                    => res.written = Flatten(upstream.body)

\* an HTML document was streamed whole with rewriting disabled
C12_Witness_HtmlStreamed ==
  /\ conn = "proxy"
  /\ ~ENABLE_REWRITE
  /\ upstream.state = "ok"
  /\ UpstreamIsHtml
  /\ pc = "done"
  /\ res.body = "upstream"
  /\ Len(res.written) = 3

(***************************************************************************)
(* C13                                                                     *)
(***************************************************************************)
\* C13: on both paths no call of res.setHeader comes after a body byte was
\* written, and once a body byte is written the status and the headers of
\* the response (Location and content-type among them) stay as they are.
C13_HeadersBeforeBody ==
  [][(conn = "proxy" /\ upstream.state = "ok")
       => /\ res'.lateHeaders = 0
          /\ res.written # <<>>
               => /\ res'.headers = res.headers
                  /\ res'.statusCode = res.statusCode]_vars

\* a redirect with an HTML body went down the Rewrite Path: Location and
\* content-type were both rewritten and the document was written
C13_Witness_RewrittenHeadersThenBody ==
  /\ conn = "proxy"
  /\ chosen = "rewrite"
  /\ pc = "done"
  /\ res.written # <<>>
  /\ Name("location") \in DOMAIN res.headers
  /\ Name("location") \in DOMAIN upstream.headers
  /\ res.headers[Name("location")].value
       # upstream.headers[Name("location")]
  /\ res.headers[Name("content-type")].value = HtmlUtf8

(***************************************************************************)
(* C14                                                                     *)
(***************************************************************************)
\* C14: on the Rewrite Path the rewritten document is never handed to
\* res.send for a client that has already disconnected.
C14_NoWriteToGoneClient ==
  (conn = "proxy" /\ chosen = "rewrite") => res.afterGone = 0

(***************************************************************************)
(* C15                                                                     *)
(***************************************************************************)
\* C15: when a step of the Rewrite Path throws, the response still ends,
\* and what the client was sent is the upstream body as it came.
C15_FallbackToOriginal ==
  (conn = "proxy" /\ chosen = "rewrite" /\ pc \in {"rejected", "crashed"})
    => /\ res.ended = 1
       /\ res.written = Flatten(upstream.body)

(***************************************************************************)
(* C16                                                                     *)
(***************************************************************************)
\* the attributes the engine covers
Covered(e) ==
  \/ e.tag = "a" /\ e.attr = "href"
  \/ e.tag \in {"img", "script", "link", "source", "video", "audio"}
       /\ e.attr \in {"src", "href"}
  \/ e.tag = "form" /\ e.attr = "action"

\* the values the claim holds unresolvable: javascript: and mailto:
\* references and the empty string
HeldUnresolvable(v) ==
  \/ v = <<>>
  \/ IsPrefix(<<"j","a","v","a","s","c","r","i","p","t",":">>, v)
  \/ IsPrefix(<<"m","a","i","l","t","o",":">>, v)

\* C16: absoluteUrl returns null for javascript: and mailto: references
\* and for the empty string, and in the document the Rewrite Path sends
\* every covered attribute with such a value, or with any other value that
\* does not resolve, is as it was received, while every covered attribute
\* whose value resolves holds the ProxyURL of the resolved URL.
C16_UnresolvableLeftAlone ==
  (conn = "proxy" /\ res.body = "rewritten")
    => LET doc == Flatten(upstream.body)
       IN \A i \in DOMAIN doc :
            LET e == doc[i]
                o == res.written[i + 1]
                abs == absoluteUrl(targetUrl, e.value)
            IN Covered(e)
                 => /\ HeldUnresolvable(e.value) => abs = Null
                    /\ IF abs = Null THEN o = e
                       ELSE o = [e EXCEPT !.value = toProxyUrl(abs)]

(***************************************************************************)
(* C17                                                                     *)
(***************************************************************************)
\* C17: on the Streaming Path what has been written to the client is at
\* every moment a prefix of the upstream body, and the whole of it once the
\* pipeline has completed; each step appends to what was written, no fetch
\* is issued again, and once the response is terminated on a stream error
\* nothing further is written.
C17_StreamIsPrefix ==
  [][(conn = "proxy" /\ chosen = "stream")
       => /\ IsPrefix(res.written, Flatten(upstream.body))
          /\ IsPrefix(res.written, res'.written)
          /\ res.body = "upstream" => res.written = Flatten(upstream.body)
          /\ res.ended > 0 => res'.written = res.written
          /\ fetches' = fetches
          /\ res.ended <= 1]_vars

\* the stream failed after the first of two chunks was delivered
C17_Witness_PartialThenError ==
  /\ conn = "proxy"
  /\ chosen = "stream"
  /\ pc = "done"
  /\ res.body = "partial"
  /\ Len(upstream.body) = 2
  /\ Len(reads) = 1
  /\ res.written = upstream.body[1]

(***************************************************************************)
(* C18                                                                     *)
(***************************************************************************)
\* the number a decimal text stands for
RECURSIVE DecimalValue(_)
DecimalValue(t) ==
  IF t = <<>> THEN 0
  ELSE DecimalValue(SubSeq(t, 1, Len(t) - 1)) * 10
         + (CHOOSE n \in 0..9 :
              <<"0","1","2","3","4","5","6","7","8","9">>[n + 1] = t[Len(t)])

HandlerOver == pc \in {"done", "rejected", "crashed"}

\* the connection of the request at hand is closed
ConnectionClosed == clientGone \/ pc = "crashed"

\* C19: the response of a /proxy request is ended at most once, and when
\* its handler is over, whatever the outcome of validation, body reading,
\* fetch, upstream body reading and rewriting, the response has been ended
\* or the connection is closed: no request is left with a handler that is
\* over and a response that is still open.
C19_EndedOrClosed ==
  conn = "proxy"
    => /\ res.ended <= 1
       /\ HandlerOver => (res.ended = 1 \/ ConnectionClosed)

(***************************************************************************)
(* C20                                                                     *)
(***************************************************************************)
\* the <host> of a request for /p/<host>/...: the text with no slash and
\* no question mark, read with its percent-escapes decoded, that follows
\* /p/ and is followed by a slash, by the query string or by nothing
RequestedHost(p) ==
  LET k == CHOOSE n \in 4..(Len(p) + 1) :
             /\ \A j \in 4..(n - 1) : p[j] \notin {"/", "?"}
             /\ n <= Len(p) => p[n] \in {"/", "?"}
  IN decodeURIComponent(SubSeq(p, 4, k - 1))

\* C20: a request to /p/<host>/... creates and invokes a proxy middleware
\* only if <host> equals an entry of APPROVED_HOSTS, and then exactly one,
\* for a target on that host; for any other host, a host of a rewritten
\* link included, it ends with 403 and no middleware is created or
\* invoked.
C20_OnlyApprovedForwarded ==
  app.state # "idle"
    => IF \E i \in DOMAIN APPROVED_HOSTS :
            APPROVED_HOSTS[i] = RequestedHost(app.path)
       THEN /\ app.invoked
            /\ Len(app.created) = 1
            /\ IsPrefix(<<"h","t","t","p",":","/","/">>
                          \o RequestedHost(app.path), app.created[1])
            /\ app.status # 403
       ELSE /\ app.status = 403
            /\ app.state = "done"
            /\ app.created = <<>>
            /\ ~app.invoked

\* a link rewritten to a host outside the list was followed and refused
C20_Witness_RewrittenLinkRefused ==
  /\ app.state = "done"
  /\ app.viaLink
  /\ app.path \in links
  /\ app.path = <<"/","p","/","e",".","x","/","z","?","q">>
  /\ app.status = 403
  /\ app.created = <<>>

====
